---- MODULE Spec2Model ----
(***************************************************************************)
(* Model of the item/category persistence layer (go/app/infra.go, on       *)
(* SQLite through database/sql) and of the content-addressed image store   *)
(* (go/app/server.go: storeImage, buildImagePath, GetImage).               *)
(*                                                                         *)
(* Strings are sequences of one-character strings, so that the string      *)
(* operations of the code (prefix, suffix, path cleaning, comparison) are  *)
(* computed character by character.                                        *)
(***************************************************************************)
EXTENDS Naturals, Integers, Sequences, FiniteSets, TLC

VARIABLES
    categories,   \* committed rows of table categories, in rowid order
    items,        \* committed rows of table items, in rowid order
    catSeq,       \* sqlite_sequence value of categories (AUTOINCREMENT)
    itemSeq,      \* sqlite_sequence value of items (AUTOINCREMENT)
    writer,       \* the transaction holding SQLite's RESERVED lock, 0 if none
    readers,      \* the transactions holding a SHARED lock
    pc,           \* position of each request goroutine
    item,         \* the *Item passed to Insert
    categoryID,   \* local variable categoryID of Insert
    txCats,       \* category rows written by the open transaction
    txItems,      \* item rows written by the open transaction
    ret,          \* the error value the call returned
    newId,        \* rowid given to the item row written by the call
    created,      \* the call executed INSERT INTO categories
    snapCats,     \* categories as the transaction first read them
    snapItems,    \* items as the transaction first read them
    files,        \* the image directory: file name -> content, or NoFile
    image,        \* the bytes passed to storeImage
    filePath,     \* the path storeImage returned
    wrote,        \* the storeImage call opened its file for writing
    getResp,      \* the last answer of GetItemById
    imgResp,      \* the last outcome of GetImage
    torn,         \* the files a failed write left with part of their content
    req,          \* the AddItem request each goroutine is handling
    listResp      \* the last answer of GetAll or SearchItemsByKeyword

dbVars   == <<categories, items, catSeq, itemSeq>>
lockVars == <<writer, readers>>
txVars   == <<item, categoryID, txCats, txItems, newId, created, snapCats, snapItems>>
blobVars == <<files, image, filePath, wrote, torn>>
respVars == <<getResp, imgResp, listResp>>
vars     == <<categories, items, catSeq, itemSeq, writer, readers, pc, item,
              categoryID, txCats, txItems, ret, newId, created, snapCats,
              snapItems, files, image, filePath, wrote, getResp, imgResp, torn,
              req, listResp>>

----------------------------------------------------------------------------
(* Bounds *)

NumProcs == 2
MaxItems == 2
MaxSegs  == 3
NumSubmitters == 1
MaxRows  == 3

Procs == 1 .. NumProcs

\* the request goroutines that handle item submissions
Submitters == 1 .. NumSubmitters

----------------------------------------------------------------------------
(* Strings *)

HasPrefix(s, prefix) ==
    /\ Len(s) >= Len(prefix)
    /\ SubSeq(s, 1, Len(prefix)) = prefix

HasSuffix(s, suffix) ==
    /\ Len(s) >= Len(suffix)
    /\ SubSeq(s, Len(s) - Len(suffix) + 1, Len(s)) = suffix

TrimPrefix(s, prefix) ==
    IF HasPrefix(s, prefix) THEN SubSeq(s, Len(prefix) + 1, Len(s)) ELSE s

\* ASCII lower-casing of one character and of a string
UpperCase ==
    << "A", "B", "C", "D", "E", "F", "G", "H", "I", "J", "K", "L", "M",
       "N", "O", "P", "Q", "R", "S", "T", "U", "V", "W", "X", "Y", "Z" >>

LowerCase ==
    << "a", "b", "c", "d", "e", "f", "g", "h", "i", "j", "k", "l", "m",
       "n", "o", "p", "q", "r", "s", "t", "u", "v", "w", "x", "y", "z" >>

LowerChar(c) ==
    IF \E k \in 1 .. 26 : UpperCase[k] = c
    THEN LowerCase[CHOOSE k \in 1 .. 26 : UpperCase[k] = c]
    ELSE c

ToLower(s) == [k \in 1 .. Len(s) |-> LowerChar(s[k])]

RECURSIVE Split(_, _)
\* strings.Split(s, sep) for a one-character separator
Split(s, sep) ==
    IF \A k \in 1 .. Len(s) : s[k] # sep THEN <<s>>
    ELSE LET k == CHOOSE j \in 1 .. Len(s) :
                      s[j] = sep /\ \A h \in 1 .. j - 1 : s[h] # sep
         IN  <<SubSeq(s, 1, k - 1)>> \o Split(SubSeq(s, k + 1, Len(s)), sep)

RECURSIVE JoinSep(_, _)
\* strings.Join(segs, sep)
JoinSep(segs, sep) ==
    IF segs = <<>> THEN <<>>
    ELSE IF Len(segs) = 1 THEN segs[1]
    ELSE segs[1] \o <<sep>> \o JoinSep(Tail(segs), sep)

Separator == "/"
Dot       == <<".">>
DotDot    == <<".", ".">>

IsRooted(path) == path # <<>> /\ path[1] = Separator

\* the elements of a path; the empty path has none
Elems(path) == IF path = <<>> THEN <<>> ELSE Split(path, Separator)

\* one element of filepath.Clean's scan: empty and "." elements are dropped,
\* a ".." removes the element before it, a rooted path drops a leading "..",
\* a relative one keeps it
CleanStep(out, seg, rooted) ==
    IF seg = <<>> \/ seg = Dot THEN out
    ELSE IF seg = DotDot
    THEN IF out # <<>> /\ out[Len(out)] # DotDot
         THEN SubSeq(out, 1, Len(out) - 1)
         ELSE IF rooted THEN out ELSE Append(out, seg)
    ELSE Append(out, seg)

CleanElems(segs, rooted) ==
    LET Out[k \in 0 .. Len(segs)] ==
            IF k = 0 THEN <<>> ELSE CleanStep(Out[k - 1], segs[k], rooted)
    IN  Out[Len(segs)]

\* the cleaned path of its cleaned elements; the empty result is "."
CleanPath(body, rooted) ==
    IF rooted THEN <<Separator>> \o body
    ELSE IF body = <<>> THEN Dot ELSE body

\* filepath.Clean
Clean(path) ==
    CleanPath(JoinSep(CleanElems(Split(path, Separator), IsRooted(path)),
                      Separator),
              IsRooted(path))

\* filepath.Join of two elements
Join(a, b) ==
    IF a = <<>> /\ b = <<>> THEN <<>>
    ELSE IF a = <<>> THEN Clean(b)
    ELSE Clean(a \o <<Separator>> \o b)

\* the number of leading elements two paths share
CommonLen(B, T) ==
    CHOOSE n \in 0 .. Len(B) :
        /\ n <= Len(T)
        /\ \A j \in 1 .. n : B[j] = T[j]
        /\ n = Len(B) \/ n = Len(T) \/ B[n + 1] # T[n + 1]

\* filepath.Rel once the first differing elements are found: a ".." for every
\* base element left, then the target elements left
RelAt(B, T, n) ==
    IF n < Len(B) /\ B[n + 1] = DotDot THEN [err |-> TRUE, rel |-> <<>>]
    ELSE [err |-> FALSE,
          rel |-> JoinSep([j \in 1 .. Len(B) - n |-> DotDot]
                             \o SubSeq(T, n + 1, Len(T)), Separator)]

RelElems(B, T) == RelAt(B, T, CommonLen(B, T))

\* filepath.Rel on cleaned paths; base is base0 with "." made empty
RelCleaned(base0, base, targ) ==
    IF targ = base0 THEN [err |-> FALSE, rel |-> Dot]
    ELSE IF IsRooted(base) # IsRooted(targ) THEN [err |-> TRUE, rel |-> <<>>]
    ELSE RelElems(Elems(base), Elems(targ))

DotToEmpty(path) == IF path = Dot THEN <<>> ELSE path

\* filepath.Rel: [err, rel]
Rel(basepath, targpath) ==
    RelCleaned(Clean(basepath), DotToEmpty(Clean(basepath)), Clean(targpath))

----------------------------------------------------------------------------
(* Error values *)

Nil             == "nil"
ErrFault        == "storage fault"            \* I/O error or cancelled context
ErrBusy         == "database is locked"       \* SQLITE_BUSY
ErrConstraint   == "UNIQUE constraint failed" \* SQLITE_CONSTRAINT
ErrNoRows       == "sql: no rows in result set"
ErrCrash        == "process crashed"          \* the call never returned
errItemNotFound == "item not found"
errImageNotFound == "image not found"

----------------------------------------------------------------------------
(* Inputs *)

\* (name, category) of the submissions; "S" and "s" differ only in case
Submissions == { <<(<<"B">>), (<<"S">>)>>, <<(<<"b">>), (<<"s">>)>> }
ImageNames    == { <<"e", "3", ".", "j", "p", "g">> }

NoItem == [ID |-> 0, Name |-> <<>>, Category |-> <<>>, Image |-> <<>>]

----------------------------------------------------------------------------
(* The tables, as a transaction sees them *)

ViewCats(p)  == categories \o txCats[p]

\* SELECT id FROM categories WHERE name = ?   followed by Scan(&categoryID)
SelectCategoryByNameNoCase(cats, name) ==
    LET rows == SelectSeq(cats, LAMBDA r : ToLower(r.name) = ToLower(name))
    IN  IF rows = <<>> THEN [err |-> ErrNoRows, id |-> 0]
                       ELSE [err |-> Nil, id |-> rows[1].id]

SelectCategoryByName(cats, name) ==
    LET rows == SelectSeq(cats, LAMBDA r : r.name = name)
    IN  IF rows = <<>> THEN [err |-> ErrNoRows, id |-> 0]
                       ELSE [err |-> Nil, id |-> rows[1].id]

\* categories.name is declared UNIQUE
UniqueName(cats, name) == \A k \in 1 .. Len(cats) : cats[k].name # name

\* SQLite's file locks: one RESERVED holder at a time; a commit takes the
\* EXCLUSIVE lock, which no other connection's SHARED lock may coexist with.
LockGrantedAlways(p, level) == TRUE

LockGranted(p, level) ==
    IF level = "RESERVED" THEN writer \in {0, p}
                          ELSE (writer \in {0, p}) /\ (readers \subseteq {p})

InTx == {"select", "insertCat", "reselect", "insertItem", "commit"}
InInsert == InTx \cup {"begin"}

\* return err, with the deferred tx.Rollback()
Fail(p, e) ==
    /\ pc' = [pc EXCEPT ![p] = "done"]
    /\ ret' = [ret EXCEPT ![p] = e]
    /\ txCats' = [txCats EXCEPT ![p] = <<>>]
    /\ txItems' = [txItems EXCEPT ![p] = <<>>]
    /\ writer' = IF writer = p THEN 0 ELSE writer
    /\ readers' = readers \ {p}
    /\ snapCats' = [snapCats EXCEPT ![p] = <<>>]
    /\ snapItems' = [snapItems EXCEPT ![p] = <<>>]

----------------------------------------------------------------------------
(* itemRepository.Insert *)

InsertCall(p, n, c, f) ==
    /\ pc[p] \in {"idle", "done"}
    /\ Len(items) + Cardinality({q \in Procs : pc[q] \in InInsert}) < MaxItems
    /\ pc' = [pc EXCEPT ![p] = "begin"]
    /\ item' = [item EXCEPT ![p] = [Name |-> n, Category |-> c, Image |-> f]]
    /\ categoryID' = [categoryID EXCEPT ![p] = 0]
    /\ ret' = [ret EXCEPT ![p] = Nil]
    /\ newId' = [newId EXCEPT ![p] = 0]
    /\ created' = [created EXCEPT ![p] = FALSE]
    /\ snapCats' = [snapCats EXCEPT ![p] = categories]
    /\ snapItems' = [snapItems EXCEPT ![p] = items]
    /\ UNCHANGED <<dbVars, lockVars, txCats, txItems, blobVars, respVars>>

\* tx, err := i.db.BeginTx(ctx, nil)
BeginTx(p) ==
    /\ pc[p] = "begin"
    /\ \/ /\ pc' = [pc EXCEPT ![p] = "select"]
          /\ UNCHANGED <<lockVars, txCats, txItems, ret, snapCats, snapItems>>
       \/ Fail(p, ErrFault)
    /\ UNCHANGED <<dbVars, item, categoryID, newId, created, blobVars, respVars, req>>

\* the first SELECT: the deferred transaction takes its SHARED lock here
SelectCategory(p) ==
    /\ pc[p] = "select"
    /\ \/ LET r == SelectCategoryByName(ViewCats(p), item[p].Category)
          IN  /\ readers' = readers \cup {p}
              /\ snapCats' = [snapCats EXCEPT ![p] = categories]
              /\ snapItems' = [snapItems EXCEPT ![p] = items]
              /\ categoryID' = [categoryID EXCEPT ![p] = r.id]
              /\ pc' = [pc EXCEPT ![p] =
                          IF r.err = ErrNoRows THEN "insertCat" ELSE "insertItem"]
              /\ UNCHANGED <<writer, txCats, txItems, ret>>
       \/ /\ Fail(p, ErrFault)
          /\ UNCHANGED categoryID
    /\ UNCHANGED <<dbVars, item, newId, created, blobVars, respVars, req>>

\* INSERT INTO categories (name) VALUES (?)  outside the transaction
InsertCategoryAutocommit(p) ==
    /\ pc[p] = "insertCat"
    /\ \/ IF ~LockGranted(p, "EXCLUSIVE")
          THEN Fail(p, ErrBusy) /\ UNCHANGED <<created, categories, catSeq>>
          ELSE IF ~UniqueName(ViewCats(p), item[p].Category)
          THEN Fail(p, ErrConstraint) /\ UNCHANGED <<created, categories, catSeq>>
          ELSE /\ categories' = Append(categories,
                      [id |-> catSeq + 1, name |-> item[p].Category])
               /\ catSeq' = catSeq + 1
               /\ created' = [created EXCEPT ![p] = TRUE]
               /\ pc' = [pc EXCEPT ![p] = "reselect"]
               /\ UNCHANGED <<txCats, readers, writer, txItems, ret, snapCats,
                              snapItems>>
       \/ Fail(p, ErrFault) /\ UNCHANGED <<created, categories, catSeq>>
    /\ UNCHANGED <<items, itemSeq, item, categoryID, newId, blobVars, respVars, req>>

\* _, err = tx.ExecContext(ctx, "INSERT INTO categories (name) VALUES (?)", ...)
InsertCategory(p) ==
    /\ pc[p] = "insertCat"
    /\ \/ IF ~LockGranted(p, "RESERVED")
          THEN Fail(p, ErrBusy) /\ UNCHANGED created
          ELSE IF ~UniqueName(ViewCats(p), item[p].Category)
          THEN Fail(p, ErrConstraint) /\ UNCHANGED created
          ELSE /\ txCats' = [txCats EXCEPT ![p] = Append(@,
                      [id |-> catSeq + Len(@) + 1, name |-> item[p].Category])]
               /\ writer' = p
               /\ created' = [created EXCEPT ![p] = TRUE]
               /\ pc' = [pc EXCEPT ![p] = "reselect"]
               /\ UNCHANGED <<readers, txItems, ret, snapCats, snapItems>>
       \/ Fail(p, ErrFault) /\ UNCHANGED created
    /\ UNCHANGED <<dbVars, item, categoryID, newId, blobVars, respVars, req>>

\* the second SELECT left out: categoryID keeps its zero value
ReselectCategorySkipped(p) ==
    /\ pc[p] = "reselect"
    /\ \/ /\ pc' = [pc EXCEPT ![p] = "insertItem"]
          /\ UNCHANGED <<lockVars, txCats, txItems, ret, snapCats, snapItems>>
       \/ Fail(p, ErrFault)
    /\ UNCHANGED <<dbVars, item, categoryID, newId, created, blobVars, respVars, req>>

\* the second SELECT id FROM categories WHERE name = ?
ReselectCategory(p) ==
    /\ pc[p] = "reselect"
    /\ \/ LET r == SelectCategoryByName(ViewCats(p), item[p].Category)
          IN  IF r.err # Nil
              THEN Fail(p, r.err) /\ UNCHANGED categoryID
              ELSE /\ categoryID' = [categoryID EXCEPT ![p] = r.id]
                   /\ pc' = [pc EXCEPT ![p] = "insertItem"]
                   /\ UNCHANGED <<lockVars, txCats, txItems, ret, snapCats,
                                  snapItems>>
       \/ Fail(p, ErrFault) /\ UNCHANGED categoryID
    /\ UNCHANGED <<dbVars, item, newId, created, blobVars, respVars, req>>

\* INSERT INTO items (name, category_id, image_name) VALUES (?, ?, ?)
InsertItem(p) ==
    /\ pc[p] = "insertItem"
    /\ \/ IF ~LockGranted(p, "RESERVED")
          THEN Fail(p, ErrBusy) /\ UNCHANGED newId
          ELSE /\ txItems' = [txItems EXCEPT ![p] = Append(@,
                      [id |-> itemSeq + Len(@) + 1, name |-> item[p].Name,
                       category_id |-> categoryID[p],
                       image_name |-> item[p].Image])]
               /\ newId' = [newId EXCEPT ![p] = itemSeq + Len(txItems[p]) + 1]
               /\ writer' = p
               /\ pc' = [pc EXCEPT ![p] = "commit"]
               /\ UNCHANGED <<readers, txCats, ret, snapCats, snapItems>>
       \/ Fail(p, ErrFault) /\ UNCHANGED newId
    /\ UNCHANGED <<dbVars, item, categoryID, created, blobVars, respVars, req>>

\* the commit does not advance the sqlite_sequence value of items
CommitSeqKept(p) ==
    /\ pc[p] = "commit"
    /\ \/ IF ~LockGranted(p, "EXCLUSIVE")
          THEN Fail(p, ErrBusy) /\ UNCHANGED dbVars
          ELSE /\ categories' = categories \o txCats[p]
               /\ catSeq' = catSeq + Len(txCats[p])
               /\ items' = items \o txItems[p]
               /\ itemSeq' = itemSeq
               /\ txCats' = [txCats EXCEPT ![p] = <<>>]
               /\ txItems' = [txItems EXCEPT ![p] = <<>>]
               /\ writer' = IF writer = p THEN 0 ELSE writer
               /\ readers' = readers \ {p}
               /\ pc' = [pc EXCEPT ![p] = "done"]
               /\ ret' = [ret EXCEPT ![p] = Nil]
               /\ snapCats' = [snapCats EXCEPT ![p] = <<>>]
               /\ snapItems' = [snapItems EXCEPT ![p] = <<>>]
       \/ Fail(p, ErrFault) /\ UNCHANGED dbVars
    /\ UNCHANGED <<item, categoryID, newId, created, blobVars, respVars, req>>

\* the commit replaces the tables by the rows of the transaction
CommitOverwrites(p) ==
    /\ pc[p] = "commit"
    /\ \/ IF ~LockGranted(p, "EXCLUSIVE")
          THEN Fail(p, ErrBusy) /\ UNCHANGED dbVars
          ELSE /\ categories' = txCats[p]
               /\ catSeq' = catSeq + Len(txCats[p])
               /\ items' = txItems[p]
               /\ itemSeq' = itemSeq + Len(txItems[p])
               /\ txCats' = [txCats EXCEPT ![p] = <<>>]
               /\ txItems' = [txItems EXCEPT ![p] = <<>>]
               /\ writer' = IF writer = p THEN 0 ELSE writer
               /\ readers' = readers \ {p}
               /\ pc' = [pc EXCEPT ![p] = "done"]
               /\ ret' = [ret EXCEPT ![p] = Nil]
               /\ snapCats' = [snapCats EXCEPT ![p] = <<>>]
               /\ snapItems' = [snapItems EXCEPT ![p] = <<>>]
       \/ Fail(p, ErrFault) /\ UNCHANGED dbVars
    /\ UNCHANGED <<item, categoryID, newId, created, blobVars, respVars, req>>

\* return tx.Commit(); a commit that cannot get the EXCLUSIVE lock fails
\* with SQLITE_BUSY and the driver rolls the transaction back
Commit(p) ==
    /\ pc[p] = "commit"
    /\ \/ IF ~LockGranted(p, "EXCLUSIVE")
          THEN Fail(p, ErrBusy) /\ UNCHANGED dbVars
          ELSE /\ categories' = categories \o txCats[p]
               /\ catSeq' = catSeq + Len(txCats[p])
               /\ items' = items \o txItems[p]
               /\ itemSeq' = itemSeq + Len(txItems[p])
               /\ txCats' = [txCats EXCEPT ![p] = <<>>]
               /\ txItems' = [txItems EXCEPT ![p] = <<>>]
               /\ writer' = IF writer = p THEN 0 ELSE writer
               /\ readers' = readers \ {p}
               /\ pc' = [pc EXCEPT ![p] = "done"]
               /\ ret' = [ret EXCEPT ![p] = Nil]
               /\ snapCats' = [snapCats EXCEPT ![p] = <<>>]
               /\ snapItems' = [snapItems EXCEPT ![p] = <<>>]
       \/ Fail(p, ErrFault) /\ UNCHANGED dbVars
    /\ UNCHANGED <<item, categoryID, newId, created, blobVars, respVars, req>>

\* The process dies with transactions open: SQLite's journal undoes every
\* uncommitted write when the database is next opened.
Crash ==
    /\ \E p \in Procs : pc[p] \in InInsert
    /\ pc' = [p \in Procs |-> IF pc[p] \in InInsert THEN "done" ELSE pc[p]]
    /\ ret' = [p \in Procs |-> IF pc[p] \in InInsert THEN ErrCrash ELSE ret[p]]
    /\ txCats' = [p \in Procs |-> <<>>]
    /\ txItems' = [p \in Procs |-> <<>>]
    /\ writer' = 0
    /\ readers' = {}
    /\ snapCats' = [p \in Procs |-> <<>>]
    /\ snapItems' = [p \in Procs |-> <<>>]
    /\ UNCHANGED <<dbVars, item, categoryID, newId, created, blobVars, respVars, req>>

----------------------------------------------------------------------------
(* itemRepository.GetItemById *)

Digits == <<"0", "1", "2", "3", "4", "5", "6", "7", "8", "9">>

IsDigit(c) == \E d \in 1 .. 10 : Digits[d] = c

DigitValue(c) == (CHOOSE d \in 1 .. 10 : Digits[d] = c) - 1

RECURSIVE ParseDigits(_)
ParseDigits(s) ==
    IF s = <<>> THEN 0
    ELSE 10 * ParseDigits(SubSeq(s, 1, Len(s) - 1)) + DigitValue(s[Len(s)])

\* The TEXT parameter compared with the INTEGER column items.id: SQLite
\* converts a text that is a well-formed integer, any other text equals no
\* rowid (-1 stands for "no integer").
TextToInteger(s) ==
    IF s # <<>> /\ \A k \in 1 .. Len(s) : IsDigit(s[k])
    THEN ParseDigits(s) ELSE -1

\* strconv.Itoa, the decimal form of an id as a client sends it
RECURSIVE Itoa(_)
Itoa(n) ==
    IF n < 10 THEN <<Digits[n + 1]>>
    ELSE Append(Itoa(n \div 10), Digits[(n % 10) + 1])

\* items INNER JOIN categories ON items.category_id = categories.id
JoinRows(its, cats) ==
    LET RowsOf(it) == SelectSeq(cats, LAMBDA c : it.category_id = c.id)
        F[k \in 0 .. Len(its)] ==
            IF k = 0 THEN <<>>
            ELSE F[k - 1] \o
                 [j \in 1 .. Len(RowsOf(its[k])) |->
                     [ID |-> its[k].id, Name |-> its[k].name,
                      Category |-> RowsOf(its[k])[j].name,
                      Image |-> its[k].image_name]]
    IN  F[Len(its)]

\* the join written ON items.id = categories.id
JoinRowsOnItemId(its, cats) ==
    LET RowsOf(it) == SelectSeq(cats, LAMBDA c : it.id = c.id)
        F[k \in 0 .. Len(its)] ==
            IF k = 0 THEN <<>>
            ELSE F[k - 1] \o
                 [j \in 1 .. Len(RowsOf(its[k])) |->
                     [ID |-> its[k].id, Name |-> its[k].name,
                      Category |-> RowsOf(its[k])[j].name,
                      Image |-> its[k].image_name]]
    IN  F[Len(its)]

GetItemByIdWrongJoin(its, cats, item_id) ==
    LET rows == SelectSeq(JoinRowsOnItemId(its, cats),
                          LAMBDA r : r.ID = TextToInteger(item_id))
    IN  IF rows = <<>> THEN [err |-> errItemNotFound, item |-> NoItem]
                       ELSE [err |-> Nil, item |-> rows[1]]

GetItemById(its, cats, item_id) ==
    LET rows == SelectSeq(JoinRows(its, cats),
                          LAMBDA r : r.ID = TextToInteger(item_id))
    IN  IF rows = <<>> THEN [err |-> errItemNotFound, item |-> NoItem]
                       ELSE [err |-> Nil, item |-> rows[1]]

ItemIds == { <<"2">> }

\* a read runs on i.db, outside every transaction: it sees committed rows
GetItemByIdCall(s) ==
    /\ getResp' = [id |-> s, fault |-> FALSE,
                   res |-> GetItemById(items, categories, s)]
    /\ UNCHANGED <<dbVars, lockVars, pc, txVars, txCats, txItems, ret,
                   blobVars, imgResp, listResp, req>>

\* every storage error is returned as "item not found"
GetItemByIdFaultAsNotFound(s) ==
    /\ getResp' = [id |-> s, fault |-> TRUE,
                   res |-> [err |-> errItemNotFound, item |-> NoItem]]
    /\ UNCHANGED <<dbVars, lockVars, pc, txVars, txCats, txItems, ret,
                   blobVars, imgResp, listResp, req>>

\* row.Scan returns an error other than sql.ErrNoRows: return Item{}, err
GetItemByIdFault(s) ==
    /\ getResp' = [id |-> s, fault |-> TRUE,
                   res |-> [err |-> ErrFault, item |-> NoItem]]
    /\ UNCHANGED <<dbVars, lockVars, pc, txVars, txCats, txItems, ret,
                   blobVars, imgResp, listResp, req>>

----------------------------------------------------------------------------
(* itemRepository.GetAll and itemRepository.SearchItemsByKeyword *)

\* the rows newest first, as with ORDER BY items.id DESC
GetAllNewestFirst(its, cats) ==
    [err |-> Nil,
     items |-> [k \in 1 .. Len(JoinRows(its, cats)) |->
                  JoinRows(its, cats)[Len(JoinRows(its, cats)) + 1 - k]]]

\* the joined rows in the order of the scan of table items; var items []Item
\* stays nil, the empty sequence, when there is no row
GetAll(its, cats) == [err |-> Nil, items |-> JoinRows(its, cats)]

RECURSIVE Like(_, _)
\* SQLite's LIKE without ESCAPE: % matches any run of characters, _ any one
\* character, and ASCII letters match whatever their case
Like(pattern, text) ==
    IF pattern = <<>> THEN text = <<>>
    ELSE IF pattern[1] = "%"
    THEN \E k \in 0 .. Len(text) :
            Like(Tail(pattern), SubSeq(text, k + 1, Len(text)))
    ELSE IF text = <<>> THEN FALSE
    ELSE /\ pattern[1] = "_" \/ LowerChar(pattern[1]) = LowerChar(text[1])
         /\ Like(Tail(pattern), Tail(text))

Percent == <<"%">>

\* the pattern keyword+"%": names that begin with the keyword
SearchItemsByPrefix(its, cats, keyword) ==
    [err |-> Nil,
     items |-> SelectSeq(JoinRows(its, cats),
                         LAMBDA r : Like(keyword \o Percent, r.Name))]

\* the keyword taken literally: names that have the keyword's characters in
\* a row, whatever the case of the letters
SearchItemsByLiteral(its, cats, keyword) ==
    [err |-> Nil,
     items |-> SelectSeq(JoinRows(its, cats),
                  LAMBDA r : \E i \in 1 .. Len(r.Name) + 1 :
                                \E j \in i - 1 .. Len(r.Name) :
                                   ToLower(SubSeq(r.Name, i, j)) = ToLower(keyword))]

\* WHERE items.name LIKE ?  with the argument "%"+keyword+"%"
SearchItemsByKeyword(its, cats, keyword) ==
    [err |-> Nil,
     items |-> SelectSeq(JoinRows(its, cats),
                         LAMBDA r : Like(Percent \o keyword \o Percent, r.Name))]

\* what the loop over rows returns: r itself; nil and the error when
\* db.Query or rows.Scan fails; and, rows.Err() not being looked at, the rows
\* read so far with a nil error when rows.Next() stops on an error
ListOutcomes(op, keyword, r) ==
    {[op |-> op, keyword |-> keyword, fault |-> "", err |-> r.err,
      items |-> r.items],
     [op |-> op, keyword |-> keyword, fault |-> "query", err |-> ErrFault,
      items |-> <<>>]}
    \cup {[op |-> op, keyword |-> keyword, fault |-> "next", err |-> Nil,
           items |-> SubSeq(r.items, 1, k)] : k \in 0 .. Len(r.items) - 1}

\* the query runs on the connection of an open transaction and sees its rows
GetAllCallInTx ==
    /\ \E p \in Procs :
          listResp' \in ListOutcomes("GetAll", <<>>,
                                     GetAll(items \o txItems[p], ViewCats(p)))
    /\ UNCHANGED <<dbVars, lockVars, pc, txVars, txCats, txItems, ret,
                   blobVars, getResp, imgResp, req>>

\* db.QueryContext on the pool i.db: a connection of its own, which sees the
\* committed rows
GetAllCall ==
    /\ listResp' \in ListOutcomes("GetAll", <<>>, GetAll(items, categories))
    /\ UNCHANGED <<dbVars, lockVars, pc, txVars, txCats, txItems, ret,
                   blobVars, getResp, imgResp, req>>

SearchItemsByKeywordCall(keyword) ==
    /\ listResp' \in ListOutcomes("Search", keyword,
                                  SearchItemsByKeyword(items, categories, keyword))
    /\ UNCHANGED <<dbVars, lockVars, pc, txVars, txCats, txItems, ret,
                   blobVars, getResp, imgResp, req>>

----------------------------------------------------------------------------
(* The image directory *)

NoFile == <<-1>>

ImgDirPath == <<"i", "m", "a", "g", "e", "s">>

DefaultJpg == <<"d", "e", "f", "a", "u", "l", "t", ".", "j", "p", "g">>

JpgSuffix  == <<".", "j", "p", "g">>
JpegSuffix == <<".", "j", "p", "e", "g">>

\* the bytes of images/default.jpg
DefaultImage == <<13>>

\* the byte sequences a client uploads
Images == { <<1>>, <<2, 3>> }

\* every content a file can have: an upload, or the part of it that was
\* written when a write failed
Contents == Images \cup {DefaultImage} \cup
            UNION { {SubSeq(b, 1, k) : k \in 0 .. Len(b)} : b \in Images }

\* fmt.Sprintf("%x", sha256.Sum256(image)): a fixed-length hex string, with
\* different digests for different contents
Sha256HexColliding(b) == <<"e", "3">>

Sha256Hex(b) ==
    CASE b = <<1>>    -> <<"e", "3">>
      [] b = <<2, 3>> -> <<"7", "b">>
      [] b = <<13>>   -> <<"c", "4">>
      [] b = <<2>>    -> <<"d", "4">>
      [] OTHER        -> <<"0", "0">>

\* the file name of content b: "<hex digest>.jpg"
HashFileName(b) == Sha256Hex(b) \o JpgSuffix

BlobNames == {DefaultJpg} \cup {HashFileName(b) : b \in Images}

\* os.Stat(path) succeeds: the path names the directory or a file in it
Exists(fs, path) ==
    \/ path = ImgDirPath
    \/ \E n \in DOMAIN fs :
          fs[n] # NoFile /\ path = ImgDirPath \o <<Separator>> \o n

----------------------------------------------------------------------------
(* Handlers.storeImage *)

\* the file name a request's upload gets: one per request, not per content
StoreNamePerRequest(p) == Itoa(p) \o JpgSuffix

\* fileName := fmt.Sprintf("%x.jpg", hash)
StoreName(p) == HashFileName(image[p])

\* filePath = filepath.Join(s.imgDirPath, fileName), with filepath.ToSlash
StorePath(p) == Join(ImgDirPath, StoreName(p))

\* the directory after name n got content c
WriteTo(fs, n, c) ==
    [m \in DOMAIN fs \cup {n} |-> IF m = n THEN c ELSE fs[m]]

ErrWrite == "failed to write image file"

StoreCall(p, b) ==
    /\ pc[p] \in {"idle", "done"}
    /\ pc' = [pc EXCEPT ![p] = "stat"]
    /\ image' = [image EXCEPT ![p] = b]
    /\ filePath' = [filePath EXCEPT ![p] = <<>>]
    /\ wrote' = [wrote EXCEPT ![p] = FALSE]
    /\ ret' = [ret EXCEPT ![p] = Nil]
    /\ UNCHANGED <<dbVars, lockVars, txVars, txCats, txItems, files, torn, respVars>>

\* the existence check left out: every call goes on to write
StatNoCheck(p) ==
    /\ pc[p] = "stat"
    /\ pc' = [pc EXCEPT ![p] = "open"]
    /\ UNCHANGED <<dbVars, lockVars, txVars, txCats, txItems, ret, blobVars,
                   respVars, req>>

\* if _, err := os.Stat(filePath); err == nil { return filePath, nil }
Stat(p) ==
    /\ pc[p] = "stat"
    /\ IF Exists(files, StorePath(p))
       THEN /\ pc' = [pc EXCEPT ![p] = "done"]
            /\ filePath' = [filePath EXCEPT ![p] = StorePath(p)]
       ELSE /\ pc' = [pc EXCEPT ![p] = "open"]
            /\ UNCHANGED filePath
    /\ UNCHANGED <<dbVars, lockVars, txVars, txCats, txItems, ret, files, image, torn,
                   wrote, respVars, req>>

\* the file opened for writing is default.jpg, not the file of the digest
OpenFileSentinel(p) ==
    /\ pc[p] = "open"
    /\ \/ /\ files' = WriteTo(files, DefaultJpg, <<>>)
          /\ wrote' = [wrote EXCEPT ![p] = TRUE]
          /\ pc' = [pc EXCEPT ![p] = "write"]
          /\ UNCHANGED ret
       \/ /\ pc' = [pc EXCEPT ![p] = "done"]
          /\ ret' = [ret EXCEPT ![p] = ErrWrite]
          /\ UNCHANGED <<files, wrote>>
    /\ UNCHANGED <<dbVars, lockVars, txVars, txCats, txItems, image, filePath, torn,
                   respVars, req>>

\* os.WriteFile opens with O_WRONLY|O_CREATE|O_TRUNC: the file exists and is
\* empty from here on, whatever it held
OpenFile(p) ==
    /\ pc[p] = "open"
    /\ \/ /\ files' = WriteTo(files, StoreName(p), <<>>)
          /\ wrote' = [wrote EXCEPT ![p] = TRUE]
          /\ pc' = [pc EXCEPT ![p] = "write"]
          /\ UNCHANGED ret
       \/ /\ pc' = [pc EXCEPT ![p] = "done"]
          /\ ret' = [ret EXCEPT ![p] = ErrWrite]
          /\ UNCHANGED <<files, wrote>>
    /\ UNCHANGED <<dbVars, lockVars, txVars, txCats, txItems, image, filePath, torn,
                   respVars, req>>

\* bytes written at offset 0 of a file that holds old: they replace its first
\* bytes and what lies behind them stays
Overlay(old, new) ==
    IF Len(new) >= Len(old) THEN new
    ELSE new \o SubSeq(old, Len(new) + 1, Len(old))

\* the write appends to what the file holds
WriteFileAppend(p) ==
    /\ pc[p] = "write"
    /\ \/ /\ files' = WriteTo(files, StoreName(p), files[StoreName(p)] \o image[p])
          /\ filePath' = [filePath EXCEPT ![p] = StorePath(p)]
          /\ UNCHANGED <<ret, torn>>
       \/ \E k \in 0 .. Len(image[p]) - 1 :
          /\ files' = WriteTo(files, StoreName(p),
                              files[StoreName(p)] \o SubSeq(image[p], 1, k))
          /\ torn' = torn \cup {StoreName(p)}
          /\ ret' = [ret EXCEPT ![p] = ErrWrite]
          /\ UNCHANGED filePath
    /\ pc' = [pc EXCEPT ![p] = "done"]
    /\ UNCHANGED <<dbVars, lockVars, txVars, txCats, txItems, image, wrote,
                   respVars, req>>

\* f.Write(data) and f.Close(): the bytes go to offset 0 of the file as it is
\* by now; a failed write has written only the first k bytes
WriteFile(p) ==
    /\ pc[p] = "write"
    /\ \/ /\ files' = WriteTo(files, StoreName(p),
                              Overlay(files[StoreName(p)], image[p]))
          /\ filePath' = [filePath EXCEPT ![p] = StorePath(p)]
          /\ UNCHANGED <<ret, torn>>
       \/ \E k \in 0 .. Len(image[p]) - 1 :
          /\ files' = WriteTo(files, StoreName(p),
                              Overlay(files[StoreName(p)], SubSeq(image[p], 1, k)))
          /\ torn' = torn \cup {StoreName(p)}
          /\ ret' = [ret EXCEPT ![p] = ErrWrite]
          /\ UNCHANGED filePath
    /\ pc' = [pc EXCEPT ![p] = "done"]
    /\ UNCHANGED <<dbVars, lockVars, txVars, txCats, txItems, image, wrote,
                   respVars, req>>

----------------------------------------------------------------------------
(* Handlers.buildImagePath and Handlers.GetImage *)

ErrInvalidPath == "invalid image path"
ErrBadSuffix   == "image path does not end with .jpg or .jpeg"
ErrNoFileName  == "filename is required"

\* the suffix check left out: every path inside the directory is looked up
CheckSuffixAny(fs, imgPath) ==
    IF ~Exists(fs, imgPath)
    THEN [path |-> imgPath, err |-> errImageNotFound]
    ELSE [path |-> imgPath, err |-> Nil]

\* the suffix check and the existence check on the built path
CheckSuffix(fs, imgPath) ==
    IF ~HasSuffix(imgPath, JpgSuffix) /\ ~HasSuffix(imgPath, JpegSuffix)
    THEN [path |-> <<>>, err |-> ErrBadSuffix]
    ELSE IF ~Exists(fs, imgPath)
    THEN [path |-> imgPath, err |-> errImageNotFound]
    ELSE [path |-> imgPath, err |-> Nil]

\* if err != nil || strings.HasPrefix(rel, "..")
CheckRel(fs, imgPath, r) ==
    IF r.err \/ HasPrefix(r.rel, DotDot)
    THEN [path |-> <<>>, err |-> ErrInvalidPath]
    ELSE CheckSuffix(fs, imgPath)

CheckImagePath(fs, imgPath) == CheckRel(fs, imgPath, Rel(ImgDirPath, imgPath))

\* the check strings.HasPrefix(rel, "..") left out
buildImagePathNoRel(fs, imageFileName) ==
    CheckSuffix(fs, Join(ImgDirPath, Clean(imageFileName)))

buildImagePath(fs, imageFileName) ==
    CheckImagePath(fs, Join(ImgDirPath, Clean(imageFileName)))

HasElem(segs, e) == \E k \in 1 .. Len(segs) : segs[k] = e

\* net/http's containsDotDot, which http.ServeFile applies to r.URL.Path
ContainsDotDot(path) == HasElem(Split(path, Separator), DotDot)

\* the request path of GET /images/{filename}
ImageUrlPath(fileName) == <<Separator>> \o ImgDirPath \o <<Separator>> \o fileName

NoImgResp == [fileName |-> <<>>, path |-> <<>>, err |-> Nil, status |-> 0,
              served |-> <<>>]

ImgResponse(fileName, r, status, served) ==
    [fileName |-> fileName, path |-> r.path, err |-> r.err,
     status |-> status, served |-> served]

\* http.ServeFile(w, r, imgPath)
ServeFile(fs, fileName, r, imgPath) ==
    IF ContainsDotDot(ImageUrlPath(fileName))
    THEN ImgResponse(fileName, r, 400, <<>>)
    ELSE IF ~Exists(fs, imgPath)
    THEN ImgResponse(fileName, r, 404, <<>>)
    ELSE ImgResponse(fileName, r, 200, imgPath)

\* errImageNotFound not replaced by default.jpg: the missing path is served
RespondNoDefault(fs, fileName, r) ==
    IF r.err \notin {Nil, errImageNotFound}
    THEN ImgResponse(fileName, r, 400, <<>>)
    ELSE ServeFile(fs, fileName, r, r.path)

\* GetImage once buildImagePath has returned r
Respond(fs, fileName, r) ==
    IF r.err \notin {Nil, errImageNotFound}
    THEN ImgResponse(fileName, r, 400, <<>>)
    ELSE ServeFile(fs, fileName, r,
                   IF r.err = errImageNotFound
                   THEN Join(ImgDirPath, DefaultJpg) ELSE r.path)

\* the answer to GET /images/{filename}: what buildImagePath returned, the
\* status code and the path of the file http.ServeFile sent
GetImageResponse(fs, fileName) ==
    IF fileName = <<>>
    THEN ImgResponse(fileName, [path |-> <<>>, err |-> ErrNoFileName], 400, <<>>)
    ELSE Respond(fs, fileName, buildImagePath(fs, fileName))

GetImage(fileName) ==
    /\ imgResp' = GetImageResponse(files, fileName)
    /\ UNCHANGED <<dbVars, lockVars, pc, txVars, txCats, txItems, ret,
                   blobVars, getResp, listResp, req>>

\* the path elements a client combines into a filename
PathElems == { DotDot, Dot, ImgDirPath,
               HashFileName(<<1>>), <<"z", "z", ".", "j", "p", "g">>,
               <<"e", "3", ".", "p", "n", "g">>,
               <<".", ".", "e", "3", ".", "j", "p", "g">>,
               <<"e", "3", ".", "j", "p", "e", "g">> }

FileNamesOf(n) == { JoinSep(segs, Separator) : segs \in [1 .. n -> PathElems] }

\* client-supplied filenames: up to MaxSegs elements, possibly rooted
FileNames ==
    LET rel == UNION { FileNamesOf(n) : n \in 1 .. MaxSegs }
    IN  {<<>>} \cup rel \cup { <<Separator>> \o f : f \in FileNamesOf(1) }

----------------------------------------------------------------------------
(* Handlers.AddItem *)

\* a multipart form: the fields name and category and the file part image,
\* FileName = <<>> when the form has no file part
Form(n, c, fileName, data) ==
    [Name |-> n, Category |-> c, FileName |-> fileName, Data |-> data]

\* no request in hand; posted is the form of the last request, status and
\* body are the status code and the text of the response to it
NoRequest == [stage |-> "none", Name |-> <<>>, Category |-> <<>>,
              Image |-> <<>>, posted |-> Form(<<>>, <<>>, <<>>, <<>>),
              status |-> 0, body |-> ""]

NoListResp == [op |-> "", keyword |-> <<>>, fault |-> "", err |-> Nil,
               items |-> <<>>]

ErrNotJpg     == "only .jpg or .jpeg files are allowed"
ErrEmptyImage == "image data is empty"
ErrNoName     == "name is required"
ErrNoCategory == "category is required"
ErrNotExist   == "no such file or directory"
ItemReceived  == "item received"

\* the file part of the form: Image stays empty when there is none
ParseImage(form) ==
    IF form.FileName = <<>> THEN [err |-> Nil, Image |-> <<>>]
    ELSE IF /\ ~HasSuffix(ToLower(form.FileName), JpgSuffix)
            /\ ~HasSuffix(ToLower(form.FileName), JpegSuffix)
    THEN [err |-> ErrNotJpg, Image |-> <<>>]
    ELSE IF Len(form.Data) = 0 THEN [err |-> ErrEmptyImage, Image |-> <<>>]
    ELSE [err |-> Nil, Image |-> form.Data]

\* the validation of name and category, after the file part was read
ValidateFields(form, img) ==
    IF img.err # Nil THEN img.err
    ELSE IF form.Name = <<>> THEN ErrNoName
    ELSE IF form.Category = <<>> THEN ErrNoCategory
    ELSE Nil

\* name and category are not looked at
parseAddItemRequestUnvalidated(form) ==
    [err |-> ParseImage(form).err,
     Name |-> form.Name, Category |-> form.Category,
     Image |-> ParseImage(form).Image]

parseAddItemRequest(form) ==
    [err |-> ValidateFields(form, ParseImage(form)),
     Name |-> form.Name, Category |-> form.Category,
     Image |-> ParseImage(form).Image]

\* http.Error(w, err.Error(), http.StatusInternalServerError); return
Answer(p, form, code, body) ==
    req' = [req EXCEPT ![p] = [NoRequest EXCEPT !.posted = form,
                                                 !.status = code, !.body = body]]

\* the handler goes on to the next stage with the parsed request r
Proceed(p, form, r, stage) ==
    req' = [req EXCEPT ![p] = [stage |-> stage, Name |-> r.Name,
                               Category |-> r.Category, Image |-> r.Image,
                               posted |-> form, status |-> 0, body |-> ""]]

AddItemsInHand == {q \in Procs : req[q].stage # "none"}

\* POST /items up to the call of storeImage: the request is parsed; with no
\* image the bytes of images/default.jpg are read and stored
AddItemCall(p, form) ==
    /\ pc[p] \in {"idle", "done"}
    /\ req[p].stage = "none"
    /\ Len(items) + Cardinality(AddItemsInHand) < MaxItems
    /\ IF parseAddItemRequest(form).err # Nil
       THEN /\ Answer(p, form, 500, parseAddItemRequest(form).err)
            /\ UNCHANGED <<dbVars, lockVars, pc, txVars, txCats, txItems, ret,
                           blobVars, respVars>>
       ELSE IF Len(parseAddItemRequest(form).Image) > 0
       THEN /\ Proceed(p, form, parseAddItemRequest(form), "store")
            /\ StoreCall(p, parseAddItemRequest(form).Image)
       ELSE IF ~Exists(files, Join(ImgDirPath, DefaultJpg))
       THEN /\ Answer(p, form, 500, ErrNotExist)
            /\ UNCHANGED <<dbVars, lockVars, pc, txVars, txCats, txItems, ret,
                           blobVars, respVars>>
       ELSE /\ Proceed(p, form, parseAddItemRequest(form), "store")
            /\ StoreCall(p, files[DefaultJpg])

\* the literal "images/" that AddItem trims from the stored path
ImagesPrefix == <<"i", "m", "a", "g", "e", "s", "/">>

\* the handler returns: its goroutine ends and its local variables with it
Return(p) ==
    /\ pc' = [pc EXCEPT ![p] = "idle"]
    /\ ret' = [ret EXCEPT ![p] = Nil]
    /\ item' = [item EXCEPT ![p] = [Name |-> <<>>, Category |-> <<>>,
                                    Image |-> <<>>]]
    /\ categoryID' = [categoryID EXCEPT ![p] = 0]
    /\ newId' = [newId EXCEPT ![p] = 0]
    /\ created' = [created EXCEPT ![p] = FALSE]
    /\ image' = [image EXCEPT ![p] = <<>>]
    /\ filePath' = [filePath EXCEPT ![p] = <<>>]
    /\ wrote' = [wrote EXCEPT ![p] = FALSE]
    /\ UNCHANGED <<dbVars, lockVars, txCats, txItems, snapCats, snapItems,
                   files, torn, respVars>>

\* the error of storeImage is not looked at: Insert is called with whatever
\* path came back
AddItemStoredUnchecked(p) ==
    /\ req[p].stage = "store"
    /\ pc[p] = "done"
    /\ Proceed(p, req[p].posted, req[p], "insert")
    /\ InsertCall(p, req[p].Name, req[p].Category,
                  TrimPrefix(filePath[p], ImagesPrefix))

\* storeImage has returned: its error is answered with 500, its path with the
\* "images/" prefix trimmed becomes the item's image and Insert is called
AddItemStored(p) ==
    /\ req[p].stage = "store"
    /\ pc[p] = "done"
    /\ IF ret[p] # Nil
       THEN Answer(p, req[p].posted, 500, ret[p]) /\ Return(p)
       ELSE /\ Proceed(p, req[p].posted, req[p], "insert")
            /\ InsertCall(p, req[p].Name, req[p].Category,
                          TrimPrefix(filePath[p], ImagesPrefix))

\* Insert has returned: 500 on its error, the message with 200 otherwise
AddItemRespond(p) ==
    /\ req[p].stage = "insert"
    /\ pc[p] = "done"
    /\ IF ret[p] = Nil THEN Answer(p, req[p].posted, 200, ItemReceived)
                       ELSE Answer(p, req[p].posted, 500, ret[p])
    /\ Return(p)

\* the forms clients post: without image, with an image, without name
Forms ==
    { Form(<<"b">>, <<"s">>, <<>>, <<>>),
      Form(<<"b">>, <<"s">>, <<"a", ".", "J", "P", "G">>, <<1>>),
      Form(<<>>, <<"s">>, <<>>, <<>>) }

\* and the forms without category and with an image of no bytes
AllForms ==
    Forms \cup
    { Form(<<"b">>, <<>>, <<"a", ".", "J", "P", "G">>, <<1>>),
      Form(<<"b">>, <<"s">>, <<"a", ".", "J", "P", "G">>, <<>>) }

----------------------------------------------------------------------------
(* Specifications *)

\* the tables NewItemRepository creates in a new database file
InitTables ==
    /\ categories = <<>>
    /\ items = <<>>
    /\ catSeq = 0
    /\ itemSeq = 0

\* no open transaction, every request goroutine idle, nothing answered yet
InitGoroutines ==
    /\ writer = 0
    /\ readers = {}
    /\ pc = [p \in Procs |-> "idle"]
    /\ item = [p \in Procs |-> [Name |-> <<>>, Category |-> <<>>, Image |-> <<>>]]
    /\ categoryID = [p \in Procs |-> 0]
    /\ txCats = [p \in Procs |-> <<>>]
    /\ txItems = [p \in Procs |-> <<>>]
    /\ ret = [p \in Procs |-> Nil]
    /\ newId = [p \in Procs |-> 0]
    /\ created = [p \in Procs |-> FALSE]
    /\ snapCats = [p \in Procs |-> <<>>]
    /\ snapItems = [p \in Procs |-> <<>>]
    /\ getResp = [id |-> <<>>, fault |-> FALSE,
                  res |-> [err |-> Nil, item |-> NoItem]]
    /\ listResp = NoListResp
    /\ req = [p \in Procs |-> NoRequest]

\* an empty catalog, no open transaction, every request goroutine idle
InitCatalog == InitTables /\ InitGoroutines

InitStore ==
    /\ image = [p \in Procs |-> <<>>]
    /\ filePath = [p \in Procs |-> <<>>]
    /\ wrote = [p \in Procs |-> FALSE]
    /\ torn = {}

\* the image directory as shipped: default.jpg alone
Init ==
    /\ InitCatalog
    /\ InitStore
    /\ files = [n \in BlobNames |-> IF n = DefaultJpg THEN DefaultImage ELSE NoFile]
    /\ imgResp = NoImgResp

InsertStep(p) ==
    \/ BeginTx(p)
    \/ SelectCategory(p)
    \/ InsertCategory(p)
    \/ ReselectCategory(p)
    \/ InsertItem(p)
    \/ Commit(p)

NextCatalog ==
    \/ \E p \in Procs, s \in Submissions, f \in ImageNames :
          InsertCall(p, s[1], s[2], f) /\ UNCHANGED req
    \/ \E p \in Procs : InsertStep(p)
    \/ Crash
    \/ \E s \in ItemIds : GetItemByIdCall(s)

SpecCatalog == Init /\ [][NextCatalog]_vars

\* the image store alone: uploads by concurrent requests
NextBlob ==
    \/ \E p \in Procs, b \in Images : StoreCall(p, b) /\ UNCHANGED req
    \/ \E p \in Procs : Stat(p)
    \/ \E p \in Procs : OpenFile(p)
    \/ \E p \in Procs : WriteFile(p)

SpecBlob == Init /\ [][NextBlob]_vars

\* item submissions by concurrent requests, and image requests
NextSubmit ==
    \/ \E p \in Submitters, form \in Forms : AddItemCall(p, form)
    \/ \E p \in Procs : Stat(p)
    \/ \E p \in Procs : OpenFile(p)
    \/ \E p \in Procs : WriteFile(p)
    \/ \E p \in Procs : AddItemStored(p)
    \/ \E p \in Procs : InsertStep(p)
    \/ \E p \in Procs : AddItemRespond(p)
    \/ GetImage(HashFileName(DefaultImage))

SpecSubmit == Init /\ [][NextSubmit]_vars

\* item submissions alone, with every kind of form
NextAddItem ==
    \/ \E p \in Submitters, form \in AllForms : AddItemCall(p, form)
    \/ \E p \in Procs : Stat(p)
    \/ \E p \in Procs : OpenFile(p)
    \/ \E p \in Procs : WriteFile(p)
    \/ \E p \in Procs : AddItemStored(p)
    \/ \E p \in Procs : InsertStep(p)
    \/ \E p \in Procs : AddItemRespond(p)

SpecAddItem == Init /\ [][NextAddItem]_vars

\* the item names and category names of the catalogs that are queried
BlueShirt == <<"B", "l", "u", "e", " ", "S", "h", "i", "r", "t">>
Shirt     == <<"S", "h", "i", "r", "t">>
Pants     == <<"P", "a", "n", "t", "s">>

QueryRows ==
    { [Name |-> n, Category |-> c] :
        n \in {BlueShirt, Shirt, Pants}, c \in { <<"t">>, <<"b">> } }

RowSeqs == UNION { [1 .. n -> QueryRows] : n \in 0 .. MaxRows }

\* the category rows after an Insert with this category name has committed
AddCategory(cats, name) ==
    IF SelectCategoryByName(cats, name).err = ErrNoRows
    THEN Append(cats, [id |-> Len(cats) + 1, name |-> name])
    ELSE cats

\* the item rows after an Insert of row has committed; cats has its category
AddItemRow(its, cats, row) ==
    Append(its, [id |-> Len(its) + 1, name |-> row.Name,
                 category_id |-> SelectCategoryByName(cats, row.Category).id,
                 image_name |-> HashFileName(<<1>>)])

RECURSIVE CategoriesOf(_)
\* the tables after the rows were inserted one after another, each Insert
\* committing, into an empty catalog
CategoriesOf(rows) ==
    IF rows = <<>> THEN <<>>
    ELSE AddCategory(CategoriesOf(SubSeq(rows, 1, Len(rows) - 1)),
                     rows[Len(rows)].Category)

RECURSIVE ItemsOf(_)
ItemsOf(rows) ==
    IF rows = <<>> THEN <<>>
    ELSE AddItemRow(ItemsOf(SubSeq(rows, 1, Len(rows) - 1)),
                    CategoriesOf(rows), rows[Len(rows)])

\* a catalog filled by up to MaxRows committed Inserts, nothing in flight
InitQuery ==
    /\ \E rows \in RowSeqs :
          /\ categories = CategoriesOf(rows)
          /\ items = ItemsOf(rows)
    /\ catSeq = Len(categories)
    /\ itemSeq = Len(items)
    /\ InitGoroutines
    /\ InitStore
    /\ files = [n \in BlobNames |->
                   CASE n = DefaultJpg          -> DefaultImage
                     [] n = HashFileName(<<1>>) -> <<1>>
                     [] OTHER                   -> NoFile]
    /\ imgResp = NoImgResp

\* the keywords and ids clients ask for
Keywords == { <<"s", "h", "i", "r", "t">>, <<"z", "z", "z">>, <<"a", "n">>,
              <<"_">>, <<"%">> }

QueryIds == { <<"2">>, <<"0", "1">>, <<"x">>, <<"9">> }

\* no read has been answered yet
Unanswered == listResp = NoListResp /\ getResp.id = <<>>

\* one read operation on a catalog at rest; reads change no row, so what a
\* read returns does not depend on the reads before it
NextQuery ==
    \/ Unanswered /\ GetAllCall
    \/ Unanswered /\ \E keyword \in Keywords : SearchItemsByKeywordCall(keyword)
    \/ Unanswered /\ \E s \in QueryIds : GetItemByIdCall(s)
    \/ Unanswered /\ \E s \in QueryIds : GetItemByIdFault(s)

SpecQuery == InitQuery /\ [][NextQuery]_vars

\* the keywords searched while Inserts are running: b is in the name of every
\* submission, whatever its case
CatalogKeywords == { <<"b">> }

\* Inserts by concurrent requests and, at any moment in between, the three
\* read operations, each a single statement on the pool i.db
NextReadWrite ==
    \/ \E p \in Submitters, s \in Submissions, f \in ImageNames :
          InsertCall(p, s[1], s[2], f) /\ UNCHANGED req
    \/ \E p \in Procs : InsertStep(p)
    \/ Crash
    \/ GetAllCall
    \/ \E keyword \in CatalogKeywords : SearchItemsByKeywordCall(keyword)
    \/ \E s \in ItemIds : GetItemByIdCall(s)

SpecReadWrite == Init /\ [][NextReadWrite]_vars

\* image requests against every directory the uploads can have produced
InitResolve ==
    /\ InitCatalog
    /\ InitStore
    /\ files \in [BlobNames -> Contents \cup {NoFile}]
    /\ files[DefaultJpg] = DefaultImage
    /\ \A b \in Images : files[HashFileName(b)] \in {NoFile, b}
    /\ \E f \in FileNames : imgResp = [NoImgResp EXCEPT !.fileName = f]

\* the request drawn by InitResolve is answered
NextResolve == imgResp.status = 0 /\ GetImage(imgResp.fileName)

SpecResolve == InitResolve /\ [][NextResolve]_vars

\* the whole program
Next ==
    \/ NextCatalog
    \/ NextBlob
    \/ NextAddItem
    \/ NextReadWrite
    \/ \E f \in FileNames : GetImage(f)

Spec == Init /\ [][Next]_vars

----------------------------------------------------------------------------
(* Properties of the catalog store *)

\* the call of p ends in this step without success: an error return or a crash
InsertFails(p) ==
    /\ pc[p] \in InInsert
    /\ pc'[p] = "done"
    /\ ret'[p] # Nil

\* the call of p commits in this step
InsertCommits(p) ==
    /\ pc[p] = "commit"
    /\ pc'[p] = "done"
    /\ ret'[p] = Nil

CategoryNamed(cats, name) == \E k \in 1 .. Len(cats) : cats[k].name = name

NoGhostCategory ==
    \A k \in 1 .. Len(categories) :
        \E j \in 1 .. Len(items) : items[j].category_id = categories[k].id

\* C1: Insert is atomic.  When an Insert ends without committing (an error at
\* any step, the item insert included, or a crash with the transaction open),
\* that step changes no committed row, and if the transaction had read the
\* tables, the committed category rows and item rows are the ones it first
\* read: the category row it wrote is not visible.  No committed category is
\* ever without an item.
C1_InsertAtomic ==
    /\ []NoGhostCategory
    /\ [][\A p \in Procs :
            InsertFails(p) =>
               /\ UNCHANGED dbVars
               /\ pc[p] \notin {"begin", "select"} =>
                     /\ categories' = snapCats[p]
                     /\ items' = snapItems[p]]_vars

\* an Insert that wrote a category row has failed, and no such row is there
C1_Witness ==
    \E p \in Procs :
        /\ pc[p] = "done"
        /\ ret[p] \in {ErrFault, ErrBusy, ErrCrash}
        /\ created[p]
        /\ ~CategoryNamed(categories, item[p].Category)

\* C2: referential integrity.  In every reachable state every committed item
\* row's category_id is the id of a committed category row.
C2_ReferentialIntegrity ==
    \A k \in 1 .. Len(items) :
        \E j \in 1 .. Len(categories) : categories[j].id = items[k].category_id

\* two items in two categories, after an Insert that failed
C2_Witness ==
    /\ Len(items) = 2
    /\ items[1].category_id # items[2].category_id
    /\ \E p \in Procs : pc[p] = "done" /\ ret[p] # Nil

NamesDistinct(cats) ==
    \A j, k \in 1 .. Len(cats) : j # k => cats[j].name # cats[k].name

\* C3: category names are unique.  In every reachable state no two category
\* rows have the same name, in the committed table and in the table as every
\* open transaction sees it, also when concurrent Inserts propose the same
\* new name.
C3_CategoryNameUnique ==
    /\ NamesDistinct(categories)
    /\ \A p \in Procs : NamesDistinct(ViewCats(p))

\* the category INSERT of q was refused (its lookup had found no row)
LostCategoryInsert(q) ==
    /\ pc[q] = "done"
    /\ ret[q] \in {ErrBusy, ErrConstraint}
    /\ categoryID[q] = 0
    /\ ~created[q]

\* two Inserts proposed the same new name: one created it and committed,
\* the other was refused
C3_Witness ==
    \E p, q \in Procs :
        /\ p # q
        /\ item[p].Category = item[q].Category
        /\ pc[p] = "done" /\ ret[p] = Nil /\ created[p]
        /\ LostCategoryInsert(q)
        /\ Len(categories) = 1

\* C4: an Insert whose category INSERT is refused because a concurrent Insert
\* is creating a category of the same name does not return that refusal to
\* its caller.
C4_RaceLoserNotFailed ==
    [][\A q \in Procs :
          (/\ pc[q] = "insertCat"
           /\ \E p \in Procs \ {q} :
                 CategoryNamed(txCats[p], item[q].Category))
          => ~(pc'[q] = "done" /\ ret'[q] \in {ErrBusy, ErrConstraint})]_vars

\* C5: round trip.  For every Insert that returned nil, GetItemById on the
\* decimal form of the new row's id returns the submitted name, category
\* name and image filename.
C5_InsertGetByIdRoundTrip ==
    \A p \in Procs :
        (pc[p] = "done" /\ ret[p] = Nil /\ newId[p] # 0) =>
            GetItemById(items, categories, Itoa(newId[p])) =
                [err |-> Nil,
                 item |-> [ID |-> newId[p], Name |-> item[p].Name,
                           Category |-> item[p].Category,
                           Image |-> item[p].Image]]

\* GetItemById has answered with the item a second successful Insert wrote
C5_Witness ==
    \E p \in Procs :
        /\ pc[p] = "done" /\ ret[p] = Nil /\ newId[p] = 2
        /\ getResp.id = Itoa(newId[p])
        /\ getResp.res.err = Nil
        /\ getResp.res.item.Name = item[p].Name
        /\ getResp.res.item.Category = item[p].Category
        /\ getResp.res.item.Image = item[p].Image

\* C6: category create-on-demand.  A committing Insert with category name c
\* adds exactly one category row, named c and referenced by the new item,
\* when no committed row had exactly the name c, and otherwise leaves the
\* category rows unchanged and gives the new item the id of the row named c.
C6_CategoryCreateOnDemand ==
    [][\A p \in Procs :
          InsertCommits(p) =>
             LET c   == item[p].Category
                 new == items'[Len(items')]
             IN  /\ Len(items') = Len(items) + 1
                 /\ IF CategoryNamed(categories, c)
                    THEN /\ categories' = categories
                         /\ \E k \in 1 .. Len(categories) :
                               /\ categories[k].name = c
                               /\ categories[k].id = new.category_id
                    ELSE /\ categories' = Append(categories,
                                                 categories'[Len(categories')])
                         /\ categories'[Len(categories')].name = c
                         /\ categories'[Len(categories')].id = new.category_id]_vars

\* a second item reused the category the first one created
C6_Witness ==
    /\ Len(items) = 2
    /\ Len(categories) = 1
    /\ items[1].category_id = categories[1].id
    /\ items[2].category_id = categories[1].id

\* C20: item ids increase.  The committed item rows, in the order they were
\* committed, have strictly increasing ids: every committed item has an id
\* greater than every item committed before it, also after Inserts that were
\* rolled back, and no two items share an id.
C20_ItemIdsIncrease ==
    \A j, k \in 1 .. Len(items) : j < k => items[j].id < items[k].id

\* an Insert was rolled back after its item row had been given an id, and a
\* later Insert committed an item under that id, followed by another item
C20_Witness ==
    /\ Len(items) = 2
    /\ \E p \in Procs :
          /\ pc[p] = "done" /\ ret[p] # Nil /\ newId[p] # 0
          /\ \E k \in 1 .. Len(items) : items[k].id = newId[p]

----------------------------------------------------------------------------
(* Properties of the image store *)

HasDotDotElement(fileName) == HasElem(Split(fileName, Separator), DotDot)

RootElems == Split(ImgDirPath, Separator)

\* Where path elements lead, one by one, from the image directory: the
\* elements below the working directory, and how far above it.
WalkStep(w, seg) ==
    IF seg = <<>> \/ seg = Dot THEN w
    ELSE IF seg = DotDot
    THEN IF w.down # <<>>
         THEN [w EXCEPT !.down = SubSeq(@, 1, Len(@) - 1)]
         ELSE [w EXCEPT !.up = @ + 1]
    ELSE [w EXCEPT !.down = Append(@, seg)]

Walk(segs) ==
    LET W[k \in 0 .. Len(segs)] ==
            IF k = 0 THEN [up |-> 0, down |-> RootElems]
            ELSE WalkStep(W[k - 1], segs[k])
    IN  W[Len(segs)]

LeftRoot(w) ==
    \/ w.up > 0
    \/ Len(w.down) < Len(RootElems)
    \/ SubSeq(w.down, 1, Len(RootElems)) # RootElems

\* the file name leads to a place that is not the image directory nor below it
ResolvesOutside(fileName) == LeftRoot(Walk(Split(fileName, Separator)))

ElemsInside(segs) ==
    /\ Len(segs) > Len(RootElems)
    /\ SubSeq(segs, 1, Len(RootElems)) = RootElems
    /\ \A k \in 1 .. Len(segs) : segs[k] \notin {<<>>, Dot, DotDot}

\* the path names a place below the image directory
StrictlyInside(path) == ElemsInside(Split(path, Separator))

InvalidRequest == {ErrInvalidPath, ErrBadSuffix, ErrNoFileName}

C8_TraversalSafe ==
    imgResp.status # 0 =>
        /\ imgResp.path # <<>> => StrictlyInside(imgResp.path)
        /\ imgResp.served # <<>> => StrictlyInside(imgResp.served)

\* a stored image was served for a filename that is not its plain name
C8_Witness ==
    /\ imgResp.status = 200
    /\ imgResp.err = Nil
    /\ imgResp.served = imgResp.path
    /\ imgResp.served # ImgDirPath \o <<Separator>> \o imgResp.fileName
    /\ StrictlyInside(imgResp.served)

\* the files that hold content b or carry its digest's name
FilesFor(b) ==
    {n \in DOMAIN files \ {DefaultJpg} :
        files[n] # NoFile /\ (n = HashFileName(b) \/ files[n] = b)}

StoredOk(p) == pc[p] = "done" /\ ret[p] = Nil /\ filePath[p] # <<>>

\* C9: two completed storeImage calls with the same bytes returned the same
\* path, and the directory holds exactly one file for those bytes, the one
\* named by their digest.
C9_StoreTwiceSameFile ==
    \A p, q \in Procs :
        (p # q /\ StoredOk(p) /\ StoredOk(q) /\ image[p] = image[q]) =>
            /\ filePath[p] = filePath[q]
            /\ FilesFor(image[p]) = {HashFileName(image[p])}

\* the second call found the file the first one wrote
C9_Witness ==
    \E p, q \in Procs :
        /\ p # q /\ StoredOk(p) /\ StoredOk(q) /\ image[p] = image[q]
        /\ wrote[p] /\ ~wrote[q]
        /\ files[HashFileName(image[p])] = image[p]

\* C10: when the file named by the digest exists, storeImage returns its path
\* (the directory joined with "<hex digest>.jpg") with a nil error in that
\* very step, and the directory, names and contents, is unchanged.
C10_StoreShortCircuit ==
    [][\A p \in Procs :
          (pc[p] = "stat" /\ pc'[p] # "stat"
             /\ Exists(files, ImgDirPath \o <<Separator>> \o HashFileName(image[p])))
          => /\ pc'[p] = "done"
             /\ ret'[p] = Nil
             /\ TrimPrefix(filePath'[p], ImgDirPath \o <<Separator>>) =
                    HashFileName(image[p])
             /\ files' = files
             /\ wrote'[p] = FALSE]_vars

\* a call returned the path of a file it did not write
C10_Witness ==
    \E p \in Procs :
        /\ StoredOk(p)
        /\ ~wrote[p]
        /\ files[HashFileName(image[p])] # NoFile

\* a store of bytes b has opened (and emptied) the file and not yet written it
WritingNow(b) == \E r \in Procs : pc[r] = "write" /\ image[r] = b

ContentAddressed ==
    \A n \in DOMAIN files \ {DefaultJpg} :
        files[n] # NoFile => n = HashFileName(files[n])

\* a file that exists stays, with the content it has
BlobsImmutable ==
    \A n \in DOMAIN files :
        files[n] # NoFile => (n \in DOMAIN files' /\ files'[n] = files[n])

\* C12: content-address invariant.  In every reachable state every file of
\* the image directory other than default.jpg is named "<digest of its
\* content>.jpg", and a file that exists never changes content and is never
\* deleted.
C12_ContentAddressInvariant ==
    /\ []ContentAddressed
    /\ [][BlobsImmutable]_vars

\* the place a filename names, seen from the working directory
CanonicalPath(fileName) ==
    JoinSep(Walk(Split(fileName, Separator)).down, Separator)

AcceptedSuffix(path) == HasSuffix(path, JpgSuffix) \/ HasSuffix(path, JpegSuffix)

\* the path from the image directory to the place a filename names
RelativePath(fileName) ==
    JoinSep(SubSeq(Walk(Split(fileName, Separator)).down,
                   Len(RootElems) + 1,
                   Len(Walk(Split(fileName, Separator)).down)), Separator)

\* the traversal check lets the filename through: it leads to a place in the
\* image directory whose relative path does not begin with two dots
PassesTraversalCheck(fileName) ==
    /\ ~ResolvesOutside(fileName)
    /\ ~HasPrefix(RelativePath(fileName), DotDot)

\* a filename of valid form with no file behind it
ValidButMissing(fileName) ==
    /\ fileName # <<>>
    /\ PassesTraversalCheck(fileName)
    /\ AcceptedSuffix(CanonicalPath(fileName))
    /\ ~Exists(files, CanonicalPath(fileName))

DefaultImagePath == ImgDirPath \o <<Separator>> \o DefaultJpg

C14_RejectsBadSuffixOfFileName ==
    (imgResp.status # 0 /\ ~AcceptedSuffix(imgResp.fileName)) =>
        /\ imgResp.err \in InvalidRequest
        /\ imgResp.status = 400
        /\ imgResp.served = <<>>

\* C14: every filename whose canonical path does not end in .jpg or .jpeg is
\* refused with an InvalidRequest error and status 400, whether or not the
\* path exists: it is never answered with errImageNotFound, no path is
\* returned and no file, default.jpg included, is served.
C14_RejectsBadSuffixOfCleanPath ==
    (imgResp.status # 0 /\ ~AcceptedSuffix(CanonicalPath(imgResp.fileName))) =>
        /\ imgResp.err \in InvalidRequest
        /\ imgResp.path = <<>>
        /\ imgResp.status = 400
        /\ imgResp.served = <<>>

\* a path that exists was refused for its suffix
C14_Witness ==
    /\ imgResp.status = 400
    /\ imgResp.err = ErrBadSuffix
    /\ ~ResolvesOutside(imgResp.fileName)
    /\ Exists(files, CanonicalPath(imgResp.fileName))

----------------------------------------------------------------------------
(* Properties of item submissions *)

\* the names of the files in a directory
BlobFiles(fs) == {n \in DOMAIN fs : fs[n] # NoFile}

\* C15: default.jpg is immutable and always present.  Starting with
\* default.jpg in the image directory, in every state reached by item
\* submissions with and without an image (storeImage, then Insert) and by
\* image requests, default.jpg exists with its initial content, and no
\* storeImage call has default.jpg as the file it opens or writes.
C15_DefaultImmutable ==
    /\ DefaultJpg \in BlobFiles(files)
    /\ files[DefaultJpg] = DefaultImage
    /\ \A p \in Procs : pc[p] \in {"open", "write"} => StoreName(p) # DefaultJpg

\* items were added without and with an image and an image was requested
C15_Witness ==
    /\ \E j, k \in 1 .. Len(items) :
          /\ items[j].image_name = HashFileName(DefaultImage)
          /\ items[k].image_name = HashFileName(<<1>>)
    /\ {HashFileName(DefaultImage), HashFileName(<<1>>)} \subseteq BlobFiles(files)
    /\ imgResp.status = 200
    /\ files[DefaultJpg] = DefaultImage

\* the submission in the hands of p has no image
NoPhoto(p) == req[p].stage # "none" /\ req[p].Image = <<>>

\* C16: a submission without an image is recorded with default.jpg.  No step
\* of such a submission adds a file to the image directory, and the item row
\* it commits has image_name "default.jpg".
C16_NoPhotoRecordsDefault ==
    [][\A p \in Procs :
          NoPhoto(p) =>
             /\ pc'[p] # pc[p] => BlobFiles(files') = BlobFiles(files)
             /\ InsertCommits(p) =>
                   items'[Len(items')].image_name = DefaultJpg]_vars

----------------------------------------------------------------------------
(* Properties of the read operations *)

\* the record of the k-th item row: its fields and the name of the category
\* row it references
RecordOf(k) ==
    [ID |-> items[k].id, Name |-> items[k].name,
     Category |-> categories[CHOOSE j \in 1 .. Len(categories) :
                                categories[j].id = items[k].category_id].name,
     Image |-> items[k].image_name]

\* one record per item row, in the order of the rows
AllRecords == [k \in 1 .. Len(items) |-> RecordOf(k)]

ContainsKeyword(name, keyword) ==
    \E i \in 1 .. Len(name) + 1 :
        \E j \in i - 1 .. Len(name) : Like(keyword, SubSeq(name, i, j))

NamesOf(rows) == [k \in 1 .. Len(rows) |-> rows[k].Name]

\* the names in table items, in the order of the rows
ItemNames == [k \in 1 .. Len(items) |-> items[k].name]

HasChar(name, c) == \E i \in 1 .. Len(name) : name[i] = c

\* C23: the keyword goes into the LIKE pattern unescaped: a search for %
\* that no storage fault hits returns the record of every item, and a search
\* for _ returns the record of every item with a non-empty name, whether or
\* not the name has that character in it.
C23_WildcardKeyword ==
    (listResp.op = "Search" /\ listResp.fault = "") =>
        /\ listResp.keyword = <<"%">> => listResp.items = AllRecords
        /\ listResp.keyword = <<"_">> =>
              listResp.items = SelectSeq(AllRecords, LAMBDA r : r.Name # <<>>)

\* a search for _ returned three items, none with _ in its name
C23_Witness ==
    /\ listResp.op = "Search" /\ listResp.fault = "" /\ listResp.err = Nil
    /\ listResp.keyword = <<"_">>
    /\ Len(items) = 3 /\ Len(listResp.items) = 3
    /\ \A k \in 1 .. 3 : ~HasChar(listResp.items[k].Name, "_")

\* an item row has the id the text denotes
RowWithId(text) == \E k \in 1 .. Len(items) : items[k].id = TextToInteger(text)

\* C19: GetItemById returns errItemNotFound exactly when no item row has the
\* given id and returns the item's record with a nil error when one has; an
\* error of the storage is returned as an error that is neither nil nor
\* errItemNotFound.
C19_GetByIdNotFound ==
    getResp.id # <<>> =>
        IF getResp.fault
        THEN getResp.res.err \notin {Nil, errItemNotFound}
        ELSE IF RowWithId(getResp.id)
        THEN getResp.res =
                [err |-> Nil,
                 item |-> RecordOf(CHOOSE k \in 1 .. Len(items) :
                                      items[k].id = TextToInteger(getResp.id))]
        ELSE getResp.res = [err |-> errItemNotFound, item |-> NoItem]

\* an id that no row of a filled catalog has was answered with
\* errItemNotFound
C19_Witness ==
    /\ getResp.id # <<>> /\ ~getResp.fault
    /\ Len(items) = 3
    /\ ~RowWithId(getResp.id)
    /\ getResp.res.err = errItemNotFound

----------------------------------------------------------------------------
(* Properties of reads and writes together *)

IsPrefix(a, b) == Len(a) <= Len(b) /\ SubSeq(b, 1, Len(a)) = a

\* a read operation has answered in this step
ReadAnswered == listResp' # listResp \/ getResp' # getResp

\* C21: committed rows are immutable and never deleted: every step of Insert,
\* GetAll, GetItemById and SearchItemsByKeyword leaves every committed item
\* row and category row in place with the same id and the same fields; a
\* read changes no row and an Insert only adds rows behind the ones there.
C21_RowsImmutable ==
    [][/\ IsPrefix(items, items')
       /\ IsPrefix(categories, categories')
       /\ ReadAnswered => UNCHANGED <<items, categories>>]_vars

\* the first row was listed, then a second Insert committed, and the first
\* row is still what was listed
C21_Witness ==
    /\ listResp.op = "GetAll" /\ listResp.fault = ""
    /\ Len(listResp.items) = 1
    /\ Len(items) = 2 /\ Len(categories) = 2
    /\ listResp.items[1] = RecordOf(1)

CommittedRecords == {RecordOf(k) : k \in 1 .. Len(items)}

\* C22: what GetAll, GetItemById and SearchItemsByKeyword have returned is
\* committed: every record of the last answers is an item row of the table
\* with the name of a category row of the table, whatever transactions were
\* open when the read ran and whether they commit or roll back afterwards.
C22_ReadsSeeCommitted ==
    /\ \A k \in 1 .. Len(listResp.items) :
          listResp.items[k] \in CommittedRecords
    /\ (getResp.id # <<>> /\ getResp.res.err = Nil)
          => getResp.res.item \in CommittedRecords

\* GetAll answered while an Insert had a new category and its item written
\* and not committed
C22_Witness ==
    /\ listResp.op = "GetAll" /\ listResp.fault = ""
    /\ Len(listResp.items) = 1
    /\ \E p \in Procs : txCats[p] # <<>> /\ txItems[p] # <<>>

----------------------------------------------------------------------------
(* Properties of the submission handler *)

\* the form has no name, no category, or a file part of no bytes
InvalidForm(form) ==
    \/ form.Name = <<>>
    \/ form.Category = <<>>
    \/ form.FileName # <<>> /\ form.Data = <<>>

ValidationErrors == {ErrNotJpg, ErrEmptyImage, ErrNoName, ErrNoCategory}

\* the handler of p takes up a request in this step
RequestTaken(p) == req[p].stage = "none" /\ req'[p] # req[p]

\* no file of the image directory is written, neither storeImage nor Insert
\* is entered, and no row, committed or not, changes
NoStorageStep ==
    UNCHANGED <<files, torn, image, filePath, wrote, pc, item, ret, categories,
                items, catSeq, itemSeq, txCats, txItems, writer, readers>>

\* C24: a submission with an empty name, an empty category or an attached
\* image of zero bytes is answered at once with status 500 and the message
\* of the validation, and the step that rejects it takes no storage step: no
\* blob file is written, Insert is not called, and the category rows and the
\* item rows are unchanged.
C24_InvalidRejectedBeforeStorage ==
    [][\A p \in Procs :
          (RequestTaken(p) /\ InvalidForm(req'[p].posted)) =>
              /\ req'[p].stage = "none"
              /\ req'[p].status = 500
              /\ req'[p].body \in ValidationErrors
              /\ NoStorageStep]_vars

\* a form with an image of no bytes was rejected after an item had been
\* stored: the item and its blob are all there is
C24_Witness ==
    \E p \in Procs :
        /\ req[p].stage = "none" /\ req[p].status = 500
        /\ req[p].posted.Data = <<>>
        /\ req[p].posted.FileName # <<>>
        /\ req[p].body = ErrEmptyImage
        /\ pc[p] = "idle"
        /\ Len(items) = 1

\* the image directory has a file of that name
BlobExists(fs, name) == name \in DOMAIN fs /\ fs[name] # NoFile

\* every committed item's image is a file of the image directory
ItemsHaveBlobs ==
    \A k \in 1 .. Len(items) : BlobExists(files, items[k].image_name)

\* the handler of p enters Insert in this step
InsertEntered(p) == pc[p] # "begin" /\ pc'[p] = "begin"

\* storeImage has returned to the handler of p with an error
StoreFailed(p) == req[p].stage = "store" /\ pc[p] = "done" /\ ret[p] # Nil

\* storeImage has returned to the handler of p the path of a file that is
\* in the image directory
StoreDone(p) ==
    /\ req[p].stage = "store" /\ pc[p] = "done" /\ ret[p] = Nil
    /\ Exists(files, filePath[p])

\* C25: a submission stores its image before it inserts its item: Insert is
\* entered only after storeImage has returned the path of a file that exists,
\* and for that file; after an error of storeImage Insert is not entered and
\* the request is answered with 500.  So in every reachable state the image
\* of every committed item is a file of the image directory.
C25_StoreBeforeInsert ==
    /\ []ItemsHaveBlobs
    /\ [][\A p \in Procs :
            /\ InsertEntered(p) =>
                  /\ StoreDone(p)
                  /\ Join(ImgDirPath, item'[p].Image) = filePath[p]
            /\ (StoreFailed(p) /\ req'[p] # req[p]) =>
                  /\ ~InsertEntered(p)
                  /\ req'[p].stage = "none" /\ req'[p].status = 500]_vars

\* an item without photo is committed and its blob is there; the Insert of a
\* second submission failed and left its blob with no item
C25_Witness ==
    /\ Len(items) = 1
    /\ BlobExists(files, items[1].image_name)
    /\ BlobExists(files, HashFileName(<<1>>))
    /\ items[1].image_name # HashFileName(<<1>>)
    /\ \E p \in Procs : req[p].status = 500 /\ req[p].body = ErrFault

====
